---- MODULE Spec2Model ----
(***************************************************************************)
(* A model of vasppy's PROCAR reader (src/vasppy/procar.py): the Procar     *)
(* object, read_from_file / from_file with its parse stages, the merge      *)
(* operator __add__, and the collinearity gate of the effective-mass fit.   *)
(*                                                                          *)
(* A PROCAR file is modelled by what the regular expressions of the module  *)
(* extract from it: the integers of the header line, the k-point records,   *)
(* the band/energy records, the band/occupancy records, and R projection    *)
(* records of C numeric columns each.  Floating point values are modelled   *)
(* by integers (an energy by the position of its record, an occupancy by    *)
(* its sign, a coordinate by a grid index).                                 *)
(***************************************************************************)
EXTENDS Integers, Sequences, FiniteSets, TLC

VARIABLES procars, heap, last

vars == <<procars, heap, last>>

(***************************************************************************)
(* Bounds of the model.                                                     *)
(***************************************************************************)
MaxK == 2
MaxB == 2
MaxI == 1
MaxSize == 3

\* the columns of a projection row in the files tried: the ion number and one
\* orbital (with the bound raised, one more)
NumColumns == 2


Max(a, b) == IF a >= b THEN a ELSE b

(***************************************************************************)
(* Files.                                                                   *)
(*   hdr   the numbers get_numbers_from_string finds on the header line     *)
(*   kpts  the coordinate triples k_point_parser's pattern matches          *)
(*   bands the (band, energy) pairs parse_bands' pattern matches            *)
(*   occ   the (band, occupancy) pairs parse_occupancy's pattern matches    *)
(*   R, C  projections_parser's matches: R records of C columns             *)
(***************************************************************************)
KPath(K, i) == << ((i - 1) % K), 0, 0 >>

BandNo(B, i) == ((i - 1) % B) + 1

blocks_of(m) == IF m = 2 THEN 2 ELSE 1

\* The file a calculation of K k-points, B bands, I ions writes: m = 1, 2, 4
\* projection tables per (k-point, band) for the non-spin-polarised,
\* spin-polarised and non-collinear modes, P columns per table row.
Written(K, B, I, m, P) ==
    [ hdr   |-> <<K, B, I>>,
      kpts  |-> [i \in 1..(K * blocks_of(m)) |-> KPath(K, i)],
      bands |-> [i \in 1..(K * B * blocks_of(m)) |-> <<BandNo(B, i), i>>],
      occ   |-> [i \in 1..(K * B * blocks_of(m)) |-> <<BandNo(B, i), 1>>],
      R     |-> K * B * m,
      C     |-> (I + 1) * P ]

(***************************************************************************)
(* What can be wrong with a file: a truncated or edited body, a header      *)
(* that does not describe the body.                                         *)
(***************************************************************************)
DropLast(seq) == IF Len(seq) = 0 THEN seq ELSE SubSeq(seq, 1, Len(seq) - 1)

\* a k-point line is missing
DropKPoint(f) == [f EXCEPT !.kpts = DropLast(f.kpts)]

\* a band line is missing (and with it its occupancy)
DropBand(f) == [f EXCEPT !.bands = DropLast(f.bands), !.occ = DropLast(f.occ)]

\* a band line has no "# occ." field
DropOcc(f) == [f EXCEPT !.occ = DropLast(f.occ)]

\* a projection table is missing
DropProjection(f) == [f EXCEPT !.R = Max(f.R - 1, 0)]

\* the projection rows hold one number more
ExtraColumn(f) == [f EXCEPT !.C = f.C + 1]

\* the occupancy of record j is negative
Negative(f, j) == [f EXCEPT !.occ[j] = <<f.occ[j][1], -1>>]

\* the header line holds other counts than the body
ZeroK(f) == [f EXCEPT !.hdr[1] = 0]

ZeroB(f) == [f EXCEPT !.hdr[2] = 0]

\* the header line holds two numbers only
ShortHeader(f) == [f EXCEPT !.hdr = SubSeq(f.hdr, 1, 2)]

\* the body holds no projection table at all
NoProjections(f) == [f EXCEPT !.R = 0]

Modes == {1, 2, 4}

WrittenFiles ==
    { Written(K, B, I, m, NumColumns) :
        K \in 1..MaxK, B \in 1..MaxB, I \in 0..MaxI, m \in Modes }

\* the damage that changes a count is tried on the files of 0 ions
Damaged(f) ==
    { ExtraColumn(f) } \cup
    IF f.hdr[3] # 0 THEN {}
    ELSE { DropKPoint(f), DropBand(f), DropOcc(f), DropProjection(f), NoProjections(f),
           ZeroK(f), ZeroB(f), ShortHeader(f), ZeroK(NoProjections(f)),
           ZeroB(NoProjections(f)) } \cup
         { Negative(f, j) : j \in {1, Len(f.occ)} }

Files == WrittenFiles \cup UNION { Damaged(f) : f \in WrittenFiles }

\* the files of one k-point, one band and no ion, and two of them damaged
SmallFiles ==
    LET small == { f \in WrittenFiles : f.hdr = <<1, 1, 0>> }
    IN  small \cup { DropBand(Written(1, 1, 0, 1, NumColumns)),
                     ZeroK(NoProjections(Written(1, 1, 0, 1, NumColumns))) }

\* the written files of at most MaxSize k-points, bands and ions together
MergeFiles ==
    { f \in WrittenFiles : f.hdr[1] + f.hdr[2] + f.hdr[3] <= MaxSize } \cup
    { ExtraColumn(f) : f \in { g \in WrittenFiles : g.hdr = <<1, 1, 0>> } }

\* the values of the keyword negative_occupancies, one of them not valid
valid_negative_occupancies == {"warn", "raise", "ignore", "zero"}
PolicyArgs == valid_negative_occupancies \cup {"clamp"}

(***************************************************************************)
(* Values.  An integer attribute that is None holds NoneInt.  An array is   *)
(* a record with its number of axes: ndim = 0 stands for None (or an        *)
(* attribute not yet set), ndim = 1 for the empty array np.array([]) of     *)
(* shape (0,), ndim = 2 for a table of rows.                                *)
(***************************************************************************)
NoneInt == -1

NoTable == [ndim |-> 0, rows |-> <<>>]

\* np.array( list of matches, dtype = float )
np_array(matches) == [ndim |-> IF Len(matches) = 0 THEN 1 ELSE 2, rows |-> matches]

NoProjectionData == [ndim |-> 0, rows |-> 0, cols |-> 0]

NoData == [shape |-> <<>>, cells |-> <<>>]

NoText == [hdr |-> <<>>, kpts |-> <<>>, bands |-> <<>>, occ |-> <<>>, R |-> 0, C |-> 0]

\* the dictionary Procar.calculation
NoCalculation ==
    [non_spin_polarised |-> FALSE, non_collinear |-> FALSE, spin_polarised |-> FALSE]

Slots == {"a", "b", "c"}

\* Procar.__init__: the object, and the dictionary it owns (kept in the heap
\* under the reference d)
Procar(spin, d) ==
    [ spin_channels         |-> spin,
      number_of_k_points    |-> NoneInt,
      number_of_ions        |-> NoneInt,
      number_of_bands       |-> NoneInt,
      data                  |-> NoData,
      bands                 |-> NoTable,
      occupancy             |-> NoTable,
      number_of_projections |-> NoneInt,
      k_point_blocks        |-> NoneInt,
      calculation           |-> d,
      k_points              |-> NoTable,
      projection_data       |-> NoProjectionData,
      read_in               |-> NoText ]

(***************************************************************************)
(* The text extraction functions.                                           *)
(***************************************************************************)
get_numbers_from_string(text) == text.hdr

k_point_parser(text) == text.kpts

\* the matches are records of C columns; no match gives the array of shape (0,)
projections_parser(text) ==
    [ndim |-> IF text.R = 0 THEN 1 ELSE 2, rows |-> text.R, cols |-> text.C]

(***************************************************************************)
(* A call in progress: the object, its calculation dictionary, and the      *)
(* exception raised, if any.  A stage runs only while none was raised.      *)
(***************************************************************************)
Frame(o, cal) == [o |-> o, cal |-> cal, exc |-> "none", what |-> "", vals |-> <<>>]

Raise(st, e, what, vals) == [st EXCEPT !.exc = e, !.what = what, !.vals = vals]

\* lines 251-253
check_keyword(st, negative_occupancies) ==
    IF negative_occupancies \notin valid_negative_occupancies
    THEN Raise(st, "ValueError", "not a valid value for negative_occupancies", <<>>)
    ELSE st

\* lines 254-257: the three header integers are unpacked together, then
\* the rest of the file is kept in read_in
read_header(st, f) ==
    IF st.exc # "none" THEN st
    ELSE IF Len(get_numbers_from_string(f)) # 3
    THEN Raise(st, "ValueError", "values to unpack", <<Len(get_numbers_from_string(f))>>)
    ELSE [st EXCEPT !.o.number_of_k_points = get_numbers_from_string(f)[1],
                    !.o.number_of_bands    = get_numbers_from_string(f)[2],
                    !.o.number_of_ions     = get_numbers_from_string(f)[3],
                    !.o.read_in            = f]

parse_k_points(st) ==
    IF st.exc # "none" THEN st
    ELSE [st EXCEPT !.o.k_points = np_array(k_point_parser(st.o.read_in))]

parse_bands(st) ==
    IF st.exc # "none" THEN st
    ELSE [st EXCEPT !.o.bands = np_array(st.o.read_in.bands)]

parse_occupancy(st) ==
    IF st.exc # "none" THEN st
    ELSE [st EXCEPT !.o.occupancy = np_array(st.o.read_in.occ)]

\* self.occupancy[ self.occupancy < 0 ] = 0.0 : every entry of the table,
\* band numbers included, is compared
\* a variant that clears the whole record of a negative occupancy
zero_negative_rows(rows) ==
    [i \in 1..Len(rows) |-> IF rows[i][2] < 0 THEN <<0, 0>> ELSE rows[i]]

zero_negatives(rows) ==
    [i \in 1..Len(rows) |->
        << IF rows[i][1] < 0 THEN 0 ELSE rows[i][1],
           IF rows[i][2] < 0 THEN 0 ELSE rows[i][2] >>]

any_negative(rows) == \E i \in 1..Len(rows) : rows[i][2] < 0

\* lines 261-267
handle_negative_occupancies(st, negative_occupancies) ==
    IF st.exc # "none" THEN st
    ELSE IF st.o.occupancy.ndim # 2
    THEN Raise(st, "IndexError", "too many indices for array", <<>>)
    ELSE IF ~ any_negative(st.o.occupancy.rows) THEN st
    ELSE IF negative_occupancies = "raise"
    THEN Raise(st, "ValueError", "One or more occupancies are negative", <<>>)
    ELSE IF negative_occupancies = "zero"
    THEN [st EXCEPT !.o.occupancy.rows = zero_negatives(st.o.occupancy.rows)]
    ELSE st

(***************************************************************************)
(* Mode inference, lines 162-180.  The assertion of the first hypothesis    *)
(* is caught by the bare except, which tries the other two and re-raises    *)
(* the AssertionError when neither holds.  len() of the array of shape      *)
(* (0,) is 0.                                                               *)
(***************************************************************************)
set_mode(st, spin, blocks, flag) ==
    [st EXCEPT !.o.spin_channels = spin,
               !.o.k_point_blocks = blocks,
               !.cal = [st.cal EXCEPT ![flag] = TRUE]]

\* a variant that tries the non-collinear hypothesis first
infer_mode_four_first(st) ==
    LET n  == st.o.projection_data.rows
        bk == st.o.number_of_bands * st.o.number_of_k_points
    IN  IF bk * 4 = n THEN set_mode(st, 4, 1, "non_collinear")
        ELSE IF bk = n THEN set_mode(st, 1, 1, "non_spin_polarised")
        ELSE IF bk * 2 = n THEN set_mode(st, 2, 2, "spin_polarised")
        ELSE Raise(st, "AssertionError", "", <<>>)

infer_mode(st) ==
    LET n  == st.o.projection_data.rows
        bk == st.o.number_of_bands * st.o.number_of_k_points
    IN  IF bk = n THEN set_mode(st, 1, 1, "non_spin_polarised")
        ELSE IF bk * 4 = n THEN set_mode(st, 4, 1, "non_collinear")
        ELSE IF bk * 2 = n THEN set_mode(st, 2, 2, "spin_polarised")
        ELSE Raise(st, "AssertionError", "", <<>>)

\* line 181: shape[1] of the array of shape (0,) is an IndexError
count_projections(st) ==
    IF st.exc # "none" THEN st
    ELSE IF st.o.projection_data.ndim # 2
    THEN Raise(st, "IndexError", "tuple index out of range", <<>>)
    ELSE [st EXCEPT !.o.number_of_projections =
                        st.o.projection_data.cols \div (st.o.number_of_ions + 1)]

parse_projections(st) ==
    IF st.exc # "none" THEN st
    ELSE count_projections(
            infer_mode([st EXCEPT !.o.projection_data = projections_parser(st.o.read_in)]))

(***************************************************************************)
(* sanity_check, lines 195-203.  The counts read are quotients (true        *)
(* division); a quotient n / d is reported as the pair n, d, and equals     *)
(* the header count e exactly when n = e * d.                               *)
(***************************************************************************)
\* a variant without the check of the occupancy records
sanity_check_no_occupancy(st) ==
    IF st.exc # "none" THEN st
    ELSE
    LET o  == st.o
        K  == o.number_of_k_points
        B  == o.number_of_bands
        kb == o.k_point_blocks
    IN  IF Len(o.k_points.rows) # K * kb
        THEN Raise(st, "AssertionError", "k-point number mismatch",
                   <<K, Len(o.k_points.rows), kb>>)
        ELSE IF K = 0
        THEN Raise(st, "ZeroDivisionError", "division by zero", <<>>)
        ELSE IF Len(o.bands.rows) # B * K * kb
        THEN Raise(st, "AssertionError", "band mismatch",
                   <<B, Len(o.bands.rows), K * kb>>)
        ELSE st

sanity_check(st) ==
    IF st.exc # "none" THEN st
    ELSE
    LET o  == st.o
        K  == o.number_of_k_points
        B  == o.number_of_bands
        kb == o.k_point_blocks
    IN  IF Len(o.k_points.rows) # K * kb
        THEN Raise(st, "AssertionError", "k-point number mismatch",
                   <<K, Len(o.k_points.rows), kb>>)
        ELSE IF K = 0
        THEN Raise(st, "ZeroDivisionError", "division by zero", <<>>)
        ELSE IF Len(o.bands.rows) # B * K * kb
        THEN Raise(st, "AssertionError", "band mismatch",
                   <<B, Len(o.bands.rows), K * kb>>)
        ELSE IF Len(o.occupancy.rows) # B * K * kb
        THEN Raise(st, "AssertionError", "error parsing occupancy data",
                   <<B, Len(o.occupancy.rows), K * kb>>)
        ELSE st

(***************************************************************************)
(* Arrays of projections.  A record of C = (ions + 1) * P columns is one    *)
(* (ions + 1, P) block, so an array of shape (d1, d2, d3, ions + 1, P) is   *)
(* kept as its shape and, per (i1, i2, i3), the number of the projection    *)
(* record its block was read from.                                          *)
(***************************************************************************)
size(shape) ==
    LET RECURSIVE prod(_)
        prod(i) == IF i > Len(shape) THEN 1 ELSE shape[i] * prod(i + 1)
    IN  prod(1)

\* ndarray.reshape( d1, d2, d3, n, p ) of R records: row-major order
reshape(pd, d1, d2, d3, n, p) ==
    [ shape |-> <<d1, d2, d3, n, p>>,
      cells |-> [i \in 1..d1 |-> [j \in 1..d2 |-> [l \in 1..d3 |->
                    ((i - 1) * d2 + (j - 1)) * d3 + l ]]] ]

\* [:,:,:,:,1:]
drop_first_column(arr) ==
    [arr EXCEPT !.shape[5] = Max(arr.shape[5] - 1, 0)]

\* swapaxes( 0, 1 )
swapaxes_0_1(arr) ==
    [ shape |-> <<arr.shape[2], arr.shape[1], arr.shape[3], arr.shape[4], arr.shape[5]>>,
      cells |-> [j \in 1..arr.shape[2] |-> [i \in 1..arr.shape[1] |-> arr.cells[i][j]]] ]

\* swapaxes( 1, 2 )
swapaxes_1_2(arr) ==
    [ shape |-> <<arr.shape[1], arr.shape[3], arr.shape[2], arr.shape[4], arr.shape[5]>>,
      cells |-> [i \in 1..arr.shape[1] |->
                    [l \in 1..arr.shape[3] |-> [j \in 1..arr.shape[2] |-> arr.cells[i][j][l]]]] ]

\* lines 270-274
assemble(st) ==
    IF st.exc # "none" THEN st
    ELSE
    LET o  == [st.o EXCEPT !.read_in = NoText]
        pd == o.projection_data
        K  == o.number_of_k_points
        B  == o.number_of_bands
        S  == o.spin_channels
        n  == o.number_of_ions + 1
        P  == o.number_of_projections
    IN  IF pd.rows * pd.cols # size(<<S, K, B, n, P>>)
        THEN Raise([st EXCEPT !.o = o], "ValueError", "cannot reshape array",
                   <<pd.rows * pd.cols, size(<<S, K, B, n, P>>)>>)
        ELSE IF st.cal.spin_polarised
        THEN [st EXCEPT !.o = [o EXCEPT !.data =
                 swapaxes_1_2(swapaxes_0_1(drop_first_column(reshape(pd, S, K, B, n, P))))]]
        ELSE [st EXCEPT !.o = [o EXCEPT !.data =
                 drop_first_column(reshape(pd, K, B, S, n, P))]]

\* the body of read_from_file, lines 251-274
read(o, cal, f, negative_occupancies) ==
    assemble(sanity_check(parse_projections(
        handle_negative_occupancies(
            parse_occupancy(parse_bands(parse_k_points(
                read_header(check_keyword(Frame(o, cal), negative_occupancies), f)))),
            negative_occupancies))))

(***************************************************************************)
(* The program: Procar objects bound to names, the calculation dictionary   *)
(* of each in the heap, and the last call with what it raised.              *)
(***************************************************************************)
Call(op, slot, args, f, negative_occupancies, st) ==
    [ op |-> op, slot |-> slot, args |-> args, file |-> f,
      policy |-> negative_occupancies,
      exc |-> st.exc, what |-> st.what, vals |-> st.vals ]

Init ==
    /\ procars = << >>
    /\ heap = << >>
    /\ last = Call("none", "", <<>>, NoText, "", Frame(0, 0))

\* s = Procar( spin )
New(s, spin) ==
    /\ s \notin DOMAIN procars
    /\ procars' = procars @@ (s :> Procar(spin, s))
    /\ heap' = heap @@ (s :> NoCalculation)
    /\ last' = Call("Procar", s, <<spin>>, NoText, "", Frame(0, 0))

\* s = Procar.from_file( f, negative_occupancies ), lines 227-229: the new
\* object is returned, and bound to s, only when read_from_file raised nothing
from_file(s, f, negative_occupancies) ==
    /\ s \notin DOMAIN procars
    /\ LET st == read(Procar(1, s), NoCalculation, f, negative_occupancies)
       IN  /\ IF st.exc = "none"
              THEN /\ procars' = procars @@ (s :> st.o)
                   /\ heap' = heap @@ (s :> st.cal)
              ELSE UNCHANGED <<procars, heap>>
           /\ last' = Call("from_file", s, <<>>, f, negative_occupancies, st)

\* s.read_from_file( f, negative_occupancies ): what the stages assigned
\* before an exception stays assigned
read_from_file(s, f, negative_occupancies) ==
    /\ s \in DOMAIN procars
    /\ LET st == read(procars[s], heap[procars[s].calculation], f, negative_occupancies)
       IN  /\ procars' = [procars EXCEPT ![s] = st.o]
           /\ heap' = [heap EXCEPT ![st.o.calculation] = st.cal]
           /\ last' = Call("read_from_file", s, <<>>, f, negative_occupancies, st)

(***************************************************************************)
(* __add__, lines 138-159.                                                  *)
(***************************************************************************)
\* np.concatenate( ( x, y ), axis ) of two projection arrays: None is not an
\* array, and every axis but the one joined must agree
can_concatenate(x, y, axis) ==
    /\ x # NoData
    /\ y # NoData
    /\ \A i \in 1..5 : i # axis + 1 => x.shape[i] = y.shape[i]

concatenate(x, y, axis) ==
    IF axis = 0
    THEN [ shape |-> [x.shape EXCEPT ![1] = x.shape[1] + y.shape[1]],
           cells |-> x.cells \o y.cells ]
    ELSE [ shape |-> [x.shape EXCEPT ![2] = x.shape[2] + y.shape[2]],
           cells |-> [i \in 1..x.shape[1] |-> x.cells[i] \o y.cells[i]] ]

\* np.concatenate of two tables: both of two axes, or both empty
can_concatenate_tables(x, y) == x.ndim # 0 /\ x.ndim = y.ndim

concatenate_tables(x, y) == [ndim |-> x.ndim, rows |-> x.rows \o y.rows]

\* a variant that copies the object alone, which goes on referring to the
\* dictionary of the object copied
shallow_copy(o, d) == o

\* line 151: the copy owns a dictionary of its own, kept under the reference d
deepcopy(o, d) == [o EXCEPT !.calculation = d]

\* the axis the projection arrays are joined along, lines 152-155
concatenation_axis(cal) == IF cal.spin_polarised THEN 1 ELSE 0

\* a variant without the check of number_of_bands
mismatch_without_bands(self, other, cal_self, cal_other) ==
    IF self.spin_channels # other.spin_channels THEN "spin_channels"
    ELSE IF self.number_of_ions # other.number_of_ions THEN "number_of_ions"
    ELSE IF self.number_of_projections # other.number_of_projections
    THEN "number_of_projections"
    ELSE IF self.k_point_blocks # other.k_point_blocks THEN "k_point_blocks"
    ELSE IF cal_self # cal_other THEN "calculation"
    ELSE ""

\* the first attribute the two objects differ in, lines 139-150
mismatch(self, other, cal_self, cal_other) ==
    IF self.spin_channels # other.spin_channels THEN "spin_channels"
    ELSE IF self.number_of_ions # other.number_of_ions THEN "number_of_ions"
    ELSE IF self.number_of_bands # other.number_of_bands THEN "number_of_bands"
    ELSE IF self.number_of_projections # other.number_of_projections
    THEN "number_of_projections"
    ELSE IF self.k_point_blocks # other.k_point_blocks THEN "k_point_blocks"
    ELSE IF cal_self # cal_other THEN "calculation"
    ELSE ""

attribute(o, cal, name) ==
    CASE name = "spin_channels"         -> o.spin_channels
      [] name = "number_of_ions"        -> o.number_of_ions
      [] name = "number_of_bands"       -> o.number_of_bands
      [] name = "number_of_projections" -> o.number_of_projections
      [] name = "k_point_blocks"        -> o.k_point_blocks
      [] name = "calculation"           -> cal

\* self + other, the new object kept under the reference d
add(self, other, cal_self, cal_other, d) ==
    LET st   == Frame(deepcopy(self, d), cal_self)
        m    == mismatch(self, other, cal_self, cal_other)
        axis == concatenation_axis(cal_self)
    IN  IF m # ""
        THEN Raise(Frame(self, cal_self), "ValueError", m,
                   <<attribute(self, cal_self, m), attribute(other, cal_other, m)>>)
        ELSE IF ~ can_concatenate(self.data, other.data, axis)
        THEN Raise(st, "ValueError", "data cannot be concatenated", <<>>)
        ELSE IF ~ can_concatenate_tables(self.bands, other.bands)
        THEN Raise(st, "ValueError", "bands cannot be concatenated", <<>>)
        ELSE IF ~ can_concatenate_tables(self.occupancy, other.occupancy)
        THEN Raise(st, "ValueError", "occupancy cannot be concatenated", <<>>)
        ELSE [st EXCEPT
                !.o.data = concatenate(self.data, other.data, axis),
                !.o.number_of_k_points = self.number_of_k_points + other.number_of_k_points,
                !.o.bands = concatenate_tables(self.bands, other.bands),
                !.o.occupancy = concatenate_tables(self.occupancy, other.occupancy)]

\* t = s1 + s2
Add(s1, s2, t) ==
    /\ s1 \in DOMAIN procars
    /\ s2 \in DOMAIN procars
    /\ LET st == add(procars[s1], procars[s2], heap[procars[s1].calculation],
                     heap[procars[s2].calculation], t)
       IN  /\ IF st.exc = "none"
              THEN /\ procars' = (t :> st.o) @@ procars
                   /\ heap' = IF st.o.calculation = t THEN (t :> st.cal) @@ heap ELSE heap
              ELSE UNCHANGED <<procars, heap>>
           /\ last' = Call("add", t, <<s1, s2>>, NoText, "", st)

(***************************************************************************)
(* Specifications.                                                          *)
(***************************************************************************)
\* The keyword is read by lines 252 and 262-266 only: before the file is
\* opened, and when an occupancy is negative.  Every valid keyword is tried with
\* the written files and with those of a negative occupancy, the default
\* keyword with the other files, a keyword that is not valid with one file.
NegativeFiles == { f \in Files : any_negative(f.occ) }

ReadInputs ==
    ((WrittenFiles \cup NegativeFiles) \X valid_negative_occupancies) \cup
    (Files \X {"warn"}) \cup
    ({Written(1, 1, 0, 1, NumColumns)} \X {"clamp"})

\* the files an object that has read a file before is made to read
RereadInputs == { f \in SmallFiles : f \in WrittenFiles } \X {"warn"}

has_read(o) == o.number_of_k_points # NoneInt

\* one object, every file and every keyword
NextRead ==
    \/ \E spin \in 1..2 : New("a", spin)
    \/ \E in \in ReadInputs : from_file("a", in[1], in[2])
    \/ /\ "a" \in DOMAIN procars
       /\ \E in \in IF has_read(procars["a"]) THEN RereadInputs ELSE ReadInputs :
               read_from_file("a", in[1], in[2])

SpecRead == Init /\ [][NextRead]_vars

\* two objects a and b, then their sums c and what c reads
Next ==
    \/ /\ "c" \notin DOMAIN procars
       /\ \E s \in {"a", "b"} : New(s, 1)
    \/ /\ "c" \notin DOMAIN procars
       /\ \E s \in {"a", "b"}, f \in MergeFiles : from_file(s, f, "warn")
    \/ /\ "c" \notin DOMAIN procars
       /\ \E s \in {"a", "b"} :
            /\ s \in DOMAIN procars
            /\ \E in \in IF has_read(procars[s]) THEN RereadInputs
                         ELSE SmallFiles \X {"warn"} :
                    read_from_file(s, in[1], in[2])
    \/ \E in \in RereadInputs : read_from_file("c", in[1], in[2])
    \/ \E s1, s2 \in {"a", "b"} : Add(s1, s2, "c")

Spec == Init /\ [][Next]_vars

(***************************************************************************)
(* The effective mass, lines 23-97 and 307-322.  A coordinate is an         *)
(* integer, and lengths are in the unit in which the default tolerance of   *)
(* points_are_in_a_straight_line is the area 1/2: the area of a triangle    *)
(* exceeds it exactly when the square of the norm of the cross product      *)
(* exceeds FourToleranceSquared.                                            *)
(***************************************************************************)
MaxCoord == 2
MaxIndices == 4

FourToleranceSquared == 1

cross(u, v) ==
    << u[2] * v[3] - u[3] * v[2], u[3] * v[1] - u[1] * v[3], u[1] * v[2] - u[2] * v[1] >>

minus(u, v) == << u[1] - v[1], u[2] - v[2], u[3] - v[3] >>

norm_squared(u) == u[1] * u[1] + u[2] * u[2] + u[3] * u[3]

\* ( 2 * area_of_a_triangle_in_cartesian_space( a, b, c ) ) ** 2
four_area_squared(a, b, c) == norm_squared(cross(minus(b, a), minus(c, a)))

\* lines 50-55: the triangles of the first two points and each later one
points_are_in_a_straight_line(points) ==
    \A i \in 3..Len(points) :
        ~ (four_area_squared(points[1], points[2], points[i]) > FourToleranceSquared)

\* np.dot( k, reciprocal_lattice )
dot(k, lattice) ==
    [j \in 1..3 |-> k[1] * lattice[1][j] + k[2] * lattice[2][j] + k[3] * lattice[3][j]]

\* lines 69-75: the value is | dk |^2 / ( 2 delta_e ev_to_hartree ), kept as
\* the square of | dk | and delta_e
two_point_effective_mass(st, cartesian_k_points, eigenvalues) ==
    [st EXCEPT !.what = "two_point_effective_mass",
               !.vals = << norm_squared(minus(cartesian_k_points[2], cartesian_k_points[1])),
                           eigenvalues[2] - eigenvalues[1] >>]

\* np.linalg.norm( dk, axis = 1 ), line 94, of one row dk: the root
\* of the sum of the squares, which is never negative, kept as its sign and
\* its square
norm(dk) ==
    [ sign    |-> IF norm_squared(dk) = 0 THEN 0 ELSE 1,
      squared |-> norm_squared(dk) ]

\* lines 91-97: the value is that of the fit of the eigenvalues against
\* mod_dk, kept as mod_dk and the eigenvalues
least_squares_effective_mass(st, cartesian_k_points, eigenvalues) ==
    IF ~ points_are_in_a_straight_line(cartesian_k_points)
    THEN Raise(st, "ValueError", "k-points are not collinear", <<>>)
    ELSE [st EXCEPT !.what = "least_squares_effective_mass",
                    !.vals =
                        LET dk == [i \in 1..Len(cartesian_k_points) |->
                                      minus(cartesian_k_points[i], cartesian_k_points[1])]
                        IN  << [i \in 1..Len(dk) |-> norm(dk[i])], eigenvalues >>]

\* lines 307-322; k_point_indices are within the table
effective_mass_calc(o, cal, k_point_indices, band_index, reciprocal_lattice, spin) ==
    LET st == Frame(o, cal)
        K  == o.number_of_k_points
        B  == o.number_of_bands
        kb == o.k_point_blocks
        k_points == [i \in 1..Len(k_point_indices) |-> o.k_points.rows[k_point_indices[i]]]
        eigenvalues ==
            [i \in 1..Len(k_point_indices) |->
                o.bands.rows[((spin - 1) * K + (k_point_indices[i] - 1)) * B + band_index][2]]
        cartesian_k_points ==
            [i \in 1..Len(k_point_indices) |-> dot(k_points[i], reciprocal_lattice)]
    IN  IF ~ (spin <= kb) \/ ~ (Len(k_point_indices) > 1)
        THEN Raise(st, "AssertionError", "", <<>>)
        ELSE IF Len(o.bands.rows) # kb * K * B
        THEN Raise(st, "ValueError", "cannot reshape array", <<>>)
        ELSE IF Len(k_point_indices) = 2
        THEN two_point_effective_mass(st, cartesian_k_points, eigenvalues)
        ELSE least_squares_effective_mass(st, cartesian_k_points, eigenvalues)

\* the k-points of the file read: the points of a grid, a line of
\* MaxCoord + 1 points along the first axis from each corner of the unit
\* square of the other two, so that a point has points on either side of it
GridSide == MaxCoord + 1

GridSize == GridSide * 2 * 2

GridPoint(i) ==
    << (i - 1) % GridSide, ((i - 1) \div GridSide) % 2, (i - 1) \div (GridSide * 2) >>

GridFile ==
    [ Written(GridSize, 1, 0, 1, NumColumns)
        EXCEPT !.kpts = [i \in 1..GridSize |-> GridPoint(i)] ]

\* reciprocal_lattice * 2 * math.pi * angstrom_to_bohr, line 316, in the
\* unit of length of the model: a cubic cell, and one of half the edge
Lattices ==
    { << <<1, 0, 0>>, <<0, 1, 0>>, <<0, 0, 1>> >>,
      << <<2, 0, 0>>, <<0, 2, 0>>, <<0, 0, 2>> >> }

IndexLists ==
    UNION { [1..n -> 1..GridSize] : n \in 2..MaxIndices }

\* a call of a.effective_mass_calc about to be made on the object read from
\* the file of the grid
InitMass ==
    LET st == read(Procar(1, "a"), NoCalculation, GridFile, "warn")
    IN  /\ procars = ("a" :> st.o)
        /\ heap = ("a" :> st.cal)
        /\ \E k_point_indices \in IndexLists, reciprocal_lattice \in Lattices :
              last = [ op |-> "effective_mass_calc", slot |-> "a",
                       args |-> <<k_point_indices, 1, reciprocal_lattice, 1>>,
                       file |-> NoText, policy |-> "",
                       exc |-> "pending", what |-> "", vals |-> <<>> ]

\* the call returns or raises
EffectiveMassCalc ==
    /\ last.op = "effective_mass_calc"
    /\ last.exc = "pending"
    /\ LET o  == procars[last.slot]
           st == effective_mass_calc(o, heap[o.calculation], last.args[1], last.args[2],
                                     last.args[3], last.args[4])
       IN  last' = [last EXCEPT !.exc = st.exc, !.what = st.what, !.vals = st.vals]
    /\ UNCHANGED <<procars, heap>>

SpecMass == InitMass /\ [][EffectiveMassCalc]_vars

(***************************************************************************)
(* The claims.  A claim about a read is stated of the last call: its file   *)
(* and keyword, what it raised, and the object it was made on.              *)
(***************************************************************************)
LastRead == last.op \in {"from_file", "read_from_file"}

\* the object the last call was made on (read_from_file), or returned
LastObject == procars[last.slot]

LastCalculation == heap[LastObject.calculation]

\* what a read raises before it comes to parse_projections
RaisedBeforeInference ==
    last.what \in { "not a valid value for negative_occupancies", "values to unpack",
                    "too many indices for array", "One or more occupancies are negative" }

\* the read raised the AssertionError of the mode inference
UnrecognisedLayout == last.exc = "AssertionError" /\ last.what = ""

ModeIs(o, cal, spin, blocks, flag) ==
    /\ o.spin_channels = spin
    /\ o.k_point_blocks = blocks
    /\ cal[flag]

ExpectedMode(K, B, R) ==
    IF R = B * K THEN "non_spin_polarised"
    ELSE IF R = B * K * 4 THEN "non_collinear"
    ELSE IF R = B * K * 2 THEN "spin_polarised"
    ELSE "none"

\* C1: a read that comes to the mode inference, of a file of R projection
\* records under a header of K k-points and B bands, leaves the object
\* non_spin_polarised (1 spin channel, 1 k-point block) if R = B*K, else
\* non_collinear (4, 1) if R = 4*B*K, else spin_polarised (2, 2) if R = 2*B*K,
\* the first of these that holds, and raises when none does; the object
\* from_file returns carries the flag of that mode and no other.
C1_ModeInference ==
    /\ (last.op = "read_from_file" /\ ~ RaisedBeforeInference) =>
          LET K == last.file.hdr[1]
              B == last.file.hdr[2]
              m == ExpectedMode(K, B, last.file.R)
          IN  /\ m = "non_spin_polarised" =>
                    ModeIs(LastObject, LastCalculation, 1, 1, m) /\ ~ UnrecognisedLayout
              /\ m = "non_collinear" =>
                    ModeIs(LastObject, LastCalculation, 4, 1, m) /\ ~ UnrecognisedLayout
              /\ m = "spin_polarised" =>
                    ModeIs(LastObject, LastCalculation, 2, 2, m) /\ ~ UnrecognisedLayout
              /\ m = "none" => UnrecognisedLayout
    /\ (last.op = "from_file" /\ last.exc = "none") =>
          LastCalculation =
             [NoCalculation EXCEPT
                 ![ExpectedMode(last.file.hdr[1], last.file.hdr[2], last.file.R)] = TRUE]

\* C1, witness: a read of a file of no projection record under a header of no
\* k-point, where the three conditions hold together, took the first
C1_Witness ==
    /\ last.op = "read_from_file"
    /\ ~ RaisedBeforeInference
    /\ last.file.R = 0
    /\ last.file.hdr[1] * last.file.hdr[2] = 0
    /\ ModeIs(LastObject, LastCalculation, 1, 1, "non_spin_polarised")
    /\ ~ LastCalculation.non_collinear

\* C2: a read of a file whose header has no band or no k-point is rejected
\* before the mode inference: it raises, and it does not leave the object
\* classified as non_spin_polarised.
C2_ZeroCountsRejectedFirst ==
    (/\ last.op = "read_from_file"
     /\ last.policy \in valid_negative_occupancies
     /\ Len(last.file.hdr) = 3
     /\ last.file.hdr[1] * last.file.hdr[2] = 0)
    => /\ last.exc # "none"
       /\ ~ LastCalculation.non_spin_polarised
       /\ LastObject.k_point_blocks = NoneInt

\* C3: after a read that raised nothing the shape of data is
\* (number_of_k_points, number_of_bands, spin_channels, number_of_ions + 1,
\* number_of_projections).
C3_DataShape ==
    (LastRead /\ last.exc = "none") =>
        LastObject.data.shape =
            << LastObject.number_of_k_points, LastObject.number_of_bands,
               LastObject.spin_channels, LastObject.number_of_ions + 1,
               LastObject.number_of_projections >>

\* the two objects of the last sum
Left == procars[last.args[1]]

Right == procars[last.args[2]]

\* the object has read a file without an exception: its arrays are those
\* its counts describe
Parsed(o) ==
    /\ o.data # NoData
    /\ o.data.shape[1] = o.number_of_k_points
    /\ o.data.shape[2] = o.number_of_bands
    /\ o.data.shape[3] = o.spin_channels
    /\ o.data.shape[4] = o.number_of_ions + 1
    /\ o.bands.ndim = 2
    /\ o.occupancy.ndim = 2

Compatible(x, y) ==
    /\ Parsed(x) /\ Parsed(y)
    /\ heap[x.calculation] = heap[y.calculation]
    /\ x.spin_channels = y.spin_channels
    /\ x.k_point_blocks = y.k_point_blocks
    /\ x.number_of_ions = y.number_of_ions
    /\ x.number_of_bands = y.number_of_bands
    /\ x.number_of_projections = y.number_of_projections

\* C4: the sum of two compatible objects of K1 and K2 k-points is an object
\* of K1 + K2 k-points whose data is the two arrays joined along the k-point
\* axis, the other axes unchanged, in every mode.
C4_MergeJoinsKPoints ==
    (last.op = "add" /\ Compatible(Left, Right)) =>
        /\ last.exc = "none"
        /\ procars["c"].number_of_k_points =
               Left.number_of_k_points + Right.number_of_k_points
        /\ procars["c"].data.shape =
               [Left.data.shape EXCEPT ![1] = Left.data.shape[1] + Right.data.shape[1]]
        /\ procars["c"].data.cells = Left.data.cells \o Right.data.cells

\* an object with the dictionary it refers to
ObjectState(s) == <<procars[s], heap[procars[s].calculation]>>

\* C5: a sum, and whatever is done to the object it returned, leaves the two
\* objects summed as they were, the dictionary calculation included, whether
\* the sum raised or not; and the object returned has a dictionary of its own.
C5_MergeLeavesInputs ==
    [][ last'.slot = "c" =>
          /\ \A s \in {"a", "b"} \cap DOMAIN procars :
                /\ s \in DOMAIN procars'
                /\ ObjectState(s)' = ObjectState(s)
          /\ "c" \in DOMAIN procars' =>
                \A s \in {"a", "b"} \cap DOMAIN procars :
                    procars'["c"].calculation # procars[s].calculation ]_vars

\* C5, witness: the sum c of a and b has read a file of another mode since,
\* and its dictionary is no longer that of a
C5_Witness ==
    /\ last.op = "read_from_file"
    /\ last.slot = "c"
    /\ last.exc = "none"
    /\ "a" \in DOMAIN procars
    /\ Parsed(procars["a"])
    /\ heap[procars["c"].calculation] # heap[procars["a"].calculation]
    /\ procars["c"].spin_channels # procars["a"].spin_channels

AttributeNames ==
    { "spin_channels", "number_of_ions", "number_of_bands", "number_of_projections",
      "k_point_blocks", "calculation" }

Differ(x, y, name) ==
    attribute(x, heap[x.calculation], name) # attribute(y, heap[y.calculation], name)

\* C6: the sum of two objects that differ in spin_channels, number_of_ions,
\* number_of_bands, number_of_projections, k_point_blocks or calculation
\* raises a ValueError that names an attribute they differ in, with the two
\* values, and binds no object.
C6_MergeRejectsMismatch ==
    [][ (/\ last'.op = "add"
         /\ \E n \in AttributeNames :
               Differ(procars[last'.args[1]], procars[last'.args[2]], n))
        => /\ last'.exc = "ValueError"
           /\ last'.what \in AttributeNames
           /\ Differ(procars[last'.args[1]], procars[last'.args[2]], last'.what)
           /\ last'.vals =
                << attribute(procars[last'.args[1]],
                             heap[procars[last'.args[1]].calculation], last'.what),
                   attribute(procars[last'.args[2]],
                             heap[procars[last'.args[2]].calculation], last'.what) >>
           /\ UNCHANGED <<procars, heap>> ]_vars

\* C6, witness: a sum was refused for k_point_blocks alone, every attribute
\* checked before it being equal
C6_Witness ==
    /\ last.op = "add"
    /\ last.exc = "ValueError"
    /\ last.what = "k_point_blocks"
    /\ Left.k_point_blocks # Right.k_point_blocks
    /\ Left.number_of_projections = Right.number_of_projections

\* the last read came to sanity_check
CameToSanityCheck ==
    /\ last.op = "read_from_file"
    /\ ~ RaisedBeforeInference
    /\ ~ UnrecognisedLayout
    /\ last.what # "tuple index out of range"

\* C7: a read that comes to sanity_check with k-point records, band records
\* or occupancy records that are not, divided by k_point_blocks (and by the
\* header's K), the header's K (the header's B) is rejected with an
\* AssertionError that reports the header count and the count read, as the
\* quotient of the number of records and its divisor.
C7_SanityCheckRejects ==
    CameToSanityCheck =>
        LET K  == last.file.hdr[1]
            B  == last.file.hdr[2]
            kb == LastObject.k_point_blocks
            nk == Len(last.file.kpts)
            nb == Len(last.file.bands)
            no == Len(last.file.occ)
        IN  (nk # K * kb \/ nb # B * K * kb \/ no # B * K * kb) =>
                /\ last.exc = "AssertionError"
                /\ \/ /\ last.what = "k-point number mismatch"
                      /\ nk # K * kb
                      /\ last.vals = <<K, nk, kb>>
                   \/ /\ last.what = "band mismatch"
                      /\ nb # B * K * kb
                      /\ last.vals = <<B, nb, K * kb>>
                   \/ /\ last.what = "error parsing occupancy data"
                      /\ no # B * K * kb
                      /\ last.vals = <<B, no, K * kb>>

\* C7, witness: a header of 2 k-points over 1 k-point record, rejected with
\* the two counts
C7_Witness ==
    /\ CameToSanityCheck
    /\ last.exc = "AssertionError"
    /\ last.what = "k-point number mismatch"
    /\ last.vals = <<2, 1, 1>>

NegativeOccupancyRaised == last.what = "One or more occupancies are negative"

\* the last read parsed an occupancy table of the file, and its object is at hand
ParsedOccupancy ==
    /\ \/ last.op = "read_from_file"
       \/ last.op = "from_file" /\ last.exc = "none"
    /\ last.policy \in valid_negative_occupancies
    /\ Len(last.file.hdr) = 3
    /\ Len(last.file.occ) > 0

\* C8: under the keyword zero the occupancy table of the object is the one
\* parsed with every negative occupancy replaced by 0 and nothing else
\* changed; under ignore and warn it is the one parsed; none of the three
\* raises for a negative occupancy.
C8_NegativeOccupancyPolicy ==
    (ParsedOccupancy /\ last.policy \in {"zero", "ignore", "warn"}) =>
        /\ ~ NegativeOccupancyRaised
        /\ LastObject.occupancy.ndim = 2
        /\ Len(LastObject.occupancy.rows) = Len(last.file.occ)
        /\ \A i \in 1..Len(last.file.occ) :
              LastObject.occupancy.rows[i] =
                 IF last.policy = "zero" /\ last.file.occ[i][2] < 0
                 THEN <<last.file.occ[i][1], 0>>
                 ELSE last.file.occ[i]

\* C8, witness: a read under zero of a table of several records, one of them
\* negative, that raised nothing
C8_Witness ==
    /\ ParsedOccupancy
    /\ last.policy = "zero"
    /\ last.exc = "none"
    /\ Len(last.file.occ) > 1
    /\ any_negative(last.file.occ)
    /\ ~ any_negative(LastObject.occupancy.rows)

\* C9: under the keyword raise a read of a file with a negative occupancy
\* raises an AttributeError, and the keyword raises nothing when no occupancy
\* is negative; a keyword that is not valid raises a ValueError.
C9_RaiseKeyword ==
    LastRead =>
        /\ (/\ last.policy = "raise"
            /\ Len(last.file.hdr) = 3
            /\ any_negative(last.file.occ)) => last.exc = "AttributeError"
        /\ (/\ last.policy = "raise"
            /\ ~ any_negative(last.file.occ)) => ~ NegativeOccupancyRaised
        /\ last.policy \notin valid_negative_occupancies =>
              /\ last.exc = "ValueError"
              /\ last.what = "not a valid value for negative_occupancies"

\* the Cartesian points of the last call of effective_mass_calc
LastPoints ==
    [i \in 1..Len(last.args[1]) |->
        dot(procars[last.slot].k_points.rows[last.args[1][i]], last.args[3])]

\* C10: a call of effective_mass_calc on 3 or more k-points raises the
\* ValueError of the collinearity check when some three of the Cartesian
\* points span a triangle of an area above the tolerance, and returns the
\* result of the least squares fit when all the points are on one line.
C10_CollinearityGate ==
    (/\ last.op = "effective_mass_calc"
     /\ last.exc # "pending"
     /\ Len(last.args[1]) >= 3)
    => LET pts == LastPoints
           n   == Len(pts)
       IN  /\ (\E i, j, l \in 1..n :
                  four_area_squared(pts[i], pts[j], pts[l]) > FourToleranceSquared)
               => (last.exc = "ValueError" /\ last.what = "k-points are not collinear")
           /\ (\A i, j, l \in 1..n : four_area_squared(pts[i], pts[j], pts[l]) = 0)
               => (last.exc = "none" /\ last.what = "least_squares_effective_mass")

\* the flags of the calculation dictionary that are True
FlagsSet(cal) ==
    { flag \in {"non_spin_polarised", "non_collinear", "spin_polarised"} : cal[flag] }

\* C11: after a read_from_file or from_file that raised nothing, whatever the
\* object read before, exactly one of the three flags of the object's
\* calculation dictionary is True, and it is the flag of the object's
\* spin_channels and k_point_blocks: (1, 1) non_spin_polarised, (4, 1)
\* non_collinear, (2, 2) spin_polarised.
C11_OneModeFlag ==
    (LastRead /\ last.exc = "none") =>
        /\ Cardinality(FlagsSet(LastCalculation)) = 1
        /\ \/ ModeIs(LastObject, LastCalculation, 1, 1, "non_spin_polarised")
           \/ ModeIs(LastObject, LastCalculation, 4, 1, "non_collinear")
           \/ ModeIs(LastObject, LastCalculation, 2, 2, "spin_polarised")

\* what an object holds of a parse: the header counts, the tables, the
\* projection array and the mode with its flags
Dataset(o, cal) ==
    << o.number_of_k_points, o.number_of_bands, o.number_of_ions,
       o.k_points, o.bands, o.occupancy, o.data,
       o.spin_channels, o.k_point_blocks, cal >>

\* C12: a read that raises leaves no part of a dataset behind.  A from_file
\* that raises binds no object, and a read_from_file that raises leaves the
\* header counts, k_points, bands, occupancy, data and mode flags of its
\* object as they were before the call.
C12_FailedReadLeavesNothing ==
    [][ /\ (last'.op = "from_file" /\ last'.exc # "none") =>
              DOMAIN procars' = DOMAIN procars
        /\ (last'.op = "read_from_file" /\ last'.exc # "none") =>
              Dataset(procars'[last'.slot], heap'[procars'[last'.slot].calculation]) =
              Dataset(procars[last'.slot], heap[procars[last'.slot].calculation])
      ]_vars

\* the abscissae the last fit was made against
Abscissae == last.vals[1]

\* the scalar product of the steps from the first point to points i and j
Along(pts, i, j) ==
    LET u == minus(pts[i], pts[1])
        v == minus(pts[j], pts[1])
    IN  u[1] * v[1] + u[2] * v[2] + u[3] * v[3]

\* C13: in a fit of 3 or more points on one line, two points on opposite
\* sides of the first point get abscissae of opposite sign, and so never the
\* same abscissa, whatever their distances from the first point.
C13_SignedAbscissa ==
    (/\ last.op = "effective_mass_calc"
     /\ last.what = "least_squares_effective_mass")
    => LET pts == LastPoints
           n   == Len(pts)
       IN  \A i, j \in 2..n :
              (/\ \A a, b, c \in 1..n : four_area_squared(pts[a], pts[b], pts[c]) = 0
               /\ Along(pts, i, j) < 0)
              => /\ Abscissae[i].sign * Abscissae[j].sign = -1
                 /\ Abscissae[i] # Abscissae[j]

\* the relations sanity_check establishes between the counts and the tables
Consistent(o) ==
    /\ o.k_points.ndim = 2
    /\ o.bands.ndim = 2
    /\ o.occupancy.ndim = 2
    /\ Len(o.k_points.rows) = o.number_of_k_points * o.k_point_blocks
    /\ Len(o.bands.rows) = o.number_of_bands * o.number_of_k_points * o.k_point_blocks
    /\ Len(o.occupancy.rows) = Len(o.bands.rows)

\* the rows of spin block s of a table of an object
Block(o, rows, s) ==
    SubSeq(rows, (s - 1) * o.number_of_k_points * o.number_of_bands + 1,
                 s * o.number_of_k_points * o.number_of_bands)

\* the rows of the two objects in the order ( spin block, k-point, band ),
\* the k-points of x before those of y
Joined(x, rows_x, y, rows_y) ==
    IF x.k_point_blocks = 1
    THEN rows_x \o rows_y
    ELSE Block(x, rows_x, 1) \o Block(y, rows_y, 1) \o
         Block(x, rows_x, 2) \o Block(y, rows_y, 2)

\* C14: a read that raised nothing leaves an object whose tables have the
\* lengths its counts give, and so does the sum of two such objects: its
\* k_points has number_of_k_points * k_point_blocks rows, its bands and
\* occupancy number_of_bands * number_of_k_points * k_point_blocks rows, in
\* the order ( spin block, k-point, band ).
C14_MergeKeepsConsistency ==
    /\ (LastRead /\ last.exc = "none") => Consistent(LastObject)
    /\ (last.op = "add" /\ last.exc = "none" /\ Consistent(Left) /\ Consistent(Right)) =>
          /\ Consistent(procars["c"])
          /\ procars["c"].bands.rows =
                 Joined(Left, Left.bands.rows, Right, Right.bands.rows)
          /\ procars["c"].occupancy.rows =
                 Joined(Left, Left.occupancy.rows, Right, Right.occupancy.rows)

====
